---- MODULE Spec2Model ----
(***************************************************************************)
(* Multipart download of lib-storage's S3 transfer manager:                *)
(*   S3TransferManager.download   (S3TransferManager.ts, lines 628-840)    *)
(*   joinStreams / iterateStreams (join-streams.ts)                        *)
(*   the listener registry        (S3TransferManager.ts, lines 506-622)    *)
(* One download call runs against one object of the store.  JavaScript is  *)
(* single threaded: the code between two awaits is one atomic step, and    *)
(* the abort signal, the responses of the store and the consumer of the    *)
(* joined body act only at the awaits.                                     *)
(***************************************************************************)
EXTENDS Integers, Sequences, FiniteSets, TLC

\* ---------------------------------------------------------------- bounds
\* object sizes go up to MaxUnits * MIN_PART_SIZE + 1 bytes
MaxUnits == 2
\* a body stream delivers at most MaxChunks chunks
MaxChunks == 2
\* a caller that dispatches registers at most MaxListeners listeners of a
\* type and dispatches at most MaxDispatches events
MaxListeners == 4
MaxDispatches == 2
\* a caller that holds a token registers at most MaxRegistered listeners of a
\* type, and MaxRegistered with the token; its downloads dispatch at most
\* MaxDispatches events
MaxRegistered == 3
\* the content ranges that are validated lie in 0..MaxOffset
MaxOffset == 3
\* the part sizes given to the constructor come within MaxSlack bytes of
\* MIN_PART_SIZE
MaxSlack == 2
\* at most MaxInstances managers are constructed from one config
MaxInstances == 2

\* ------------------------------------------------------ program constants
MIN_PART_SIZE == 5 * 1024 * 1024
DEFAULT_PART_SIZE == 8 * 1024 * 1024
\* Number.POSITIVE_INFINITY, as the largest value the windows are compared to
POSITIVE_INFINITY == 2147483647

\* undefined, for a number and for a string
NoNum == -1
NoStr == "undefined"

EventTypes == {"transferInitiated", "bytesTransferred", "transferComplete", "transferFailed"}
Callbacks == {"cbA", "cbB"}
\* cbA is a function, cbB an object with a handleEvent method
HandlerObjects == {"cbB"}
\* null, given where a callback is expected
NullCallback == "null"
\* a function that, when it is invoked with an event, registers cbA for the
\* type of the event: (e) => tm.addEventListener(e.type, cbA)
RegisteringCallback == "cbReg"

\* a listener as the lists hold it: the callback itself (wrapper 0), or the
\* closure that addEventListener builds for once, one per registration
Listener(callback) == [callback |-> callback, wrapper |-> 0]
OnceWrapper(callback, n) == [callback |-> callback, wrapper |-> n]

\* this.eventListeners[type] for a type that is no event type: undefined for
\* a name the object does not have, and the inherited member, which is no
\* list, for a name of Object.prototype
InheritedNames == {"toString"}
UnknownTypes == {"invalidEvent"} \cup InheritedNames
HasListeners(type) == type \in EventTypes \/ type \in InheritedNames

Min(a, b) == IF a < b THEN a ELSE b
Max(a, b) == IF a > b THEN a ELSE b

\* JavaScript truthiness of a number | undefined
Truthy(n) == n # NoNum /\ n # 0

\* ------------------------------------------------------------ the inputs
\* the sizes of the stored object
TotalSizes ==
  ({u * MIN_PART_SIZE + d : u \in 0..MaxUnits, d \in {0, 1}} \ {0}) \cup {13631488}

\* request.Range: <<>> when absent, <<l, r>> for "bytes=l-r", <<l, NoNum>> for
\* "bytes=l-" and <<NoNum, n>> for "bytes=-n"
CallerRanges ==
  { <<>>, <<0, MIN_PART_SIZE + 99>>, <<100, 2 * MIN_PART_SIZE + 199>>, <<100, NoNum>>,
    <<NoNum, 500>> }

\* the body streams the store sends, as sequences of chunk lengths: the empty
\* body and the body of MaxChunks chunks of 1, 2, ... bytes
Bodies == {[i \in 1..n |-> i] : n \in {0, MaxChunks}}

RECURSIVE SumSeq(_)
SumSeq(s) == IF s = <<>> THEN 0 ELSE s[1] + SumSeq(Tail(s))

\* TransferOptions.eventListeners, in the order iterateListeners yields them
NoListeners == <<>>
LocalListenerSets ==
  { NoListeners,
    << [eventType |-> "transferInitiated", callback |-> "cbA"],
       [eventType |-> "transferComplete", callback |-> "cbA"],
       [eventType |-> "transferComplete", callback |-> "cbB"] >> }

EmptyRegistry == [t \in EventTypes |-> <<>>]
\* the registry after construction and the instance-level registrations
InstanceRegistries ==
  { EmptyRegistry,
    [EmptyRegistry EXCEPT !["transferComplete"] = <<Listener("cbB")>>,
                          !["bytesTransferred"] = <<Listener("cbB")>>] }

\* ------------------------------------------------------------- the store
\* the part size the object was uploaded with, when it is a multipart object
StorePartSize == MIN_PART_SIZE

Stores ==
  [total : TotalSizes, multipart : BOOLEAN, ETag : {NoStr, "etag1"}, skew : {0, 1}]

PartsCountOf(obj) ==
  IF obj.multipart THEN (obj.total + StorePartSize - 1) \div StorePartSize ELSE NoNum

\* what GetObject answers to one input, apart from the body: ETag, PartsCount
\* and ContentRange (<<start, end, total>>, <<>> when the header is absent).
\* `nth` is the position of the sub-request in the call: the store that
\* changed under the call reports later starts shifted by obj.skew.
GetObjectOutput(obj, input, nth) ==
  LET shift == IF nth > 1 THEN obj.skew ELSE 0
      cr == IF input.PartNumber # NoNum
              THEN IF obj.multipart
                     THEN << (input.PartNumber - 1) * StorePartSize + shift,
                             Min(input.PartNumber * StorePartSize, obj.total) - 1,
                             obj.total >>
                     ELSE << 0, obj.total - 1, obj.total >>
            ELSE IF input.Range # <<>>
              THEN IF input.Range[1] = NoNum
                     THEN << Max(0, obj.total - input.Range[2]) + shift, obj.total - 1, obj.total >>
                     ELSE << input.Range[1] + shift,
                             IF input.Range[2] = NoNum THEN obj.total - 1
                             ELSE Min(input.Range[2], obj.total - 1),
                             obj.total >>
            ELSE <<>>
  IN [ETag |-> obj.ETag, PartsCount |-> PartsCountOf(obj), ContentRange |-> cr]

\* ------------------------------------------------------------- the state
VARIABLES
  config,            \* multipartDownloadType, targetPartSizeBytes
  request,           \* the DownloadRequest of the call
  transferOptions,   \* hasSignal (an abortSignal is given), eventListeners
  store,             \* the object the requests are answered from
  aborted,           \* abortSignal.aborted
  eventListeners,    \* this.eventListeners: event type -> list of listeners
  abortListeners,    \* the abort listeners addEventListener put on the token
  abortCleanupFunctions,  \* the entry of this.abortCleanupFunctions for the token
  lastCall,          \* the last call of a registry method: the lists before it, what it threw
  tokenListeners,    \* the listeners registered with the token while it was live
  previousRange, currentRange,   \* the content ranges given to validateExpectedRanges
  validation,        \* what validateExpectedRanges made of them
  validated,         \* a list of content ranges, each validated against the one before it
  ctorConfig,        \* the S3TransferManagerConfig given to the constructor
  manager,           \* what the constructor made of it: the fields, or what it threw
  arrays,            \* the listener arrays there are: array -> its elements
  instances,         \* the managers constructed from ctorConfig: event type -> array
  rangePlan,         \* the RANGE download of an earlier variant: its locals and its windows
  streamTypes,       \* what each element of the streams array is: "web", "node", "blob", "other"
  bodyKind,          \* the kind of the joined stream: "web" (ReadableStream), "node" (Readable)
  queue,             \* the chunks the joined stream holds for its consumer
  pc,                \* where the download call stands
  error,             \* the error the call rejected with
  left, right, maxRange, remainingLength,   \* locals of the RANGE branch
  totalSize, initialETag,                   \* taken from the first response
  part, partsCount,                         \* locals of the PART loop
  metadata,          \* the metadata of the DownloadResponse
  requests,          \* the requests array of the call
  sent,              \* every GetObject sent, with the state of the signal then
  streams,           \* the streams array: one handle per sub-request
  joined,            \* what joinStreams returned: "none", "direct", "joined"
  jIndex, jChunk,    \* iterateStreams: current stream and chunks taken of it
  jState,            \* "idle", "reading", "done", "failed"
  bytesTransferred,  \* running total of iterateStreams
  output,            \* the bytes the body has yielded: <<stream, offset>>
  events             \* the events dispatched, in order

inputVars == <<config, request, transferOptions, store>>
planVars ==
  <<left, right, maxRange, remainingLength, totalSize, initialETag, part, partsCount, metadata>>
netVars == <<requests, sent, streams>>
joinVars == <<joined, jIndex, jChunk, jState, bytesTransferred, output>>
tokenVars == <<abortListeners, abortCleanupFunctions>>
rangeVars == <<previousRange, currentRange, validation, validated>>
ctorVars == <<ctorConfig, manager, arrays, instances>>
variantVars == <<rangePlan>>
bufferVars == <<streamTypes, bodyKind, queue>>
callVars == <<lastCall, tokenListeners, rangeVars, variantVars, ctorVars, bufferVars>>
vars == <<inputVars, aborted, eventListeners, tokenVars, callVars, pc, error, planVars, netVars,
          joinVars, events>>

\* the registry fields of the manager, as the registry methods take them
this ==
  [eventListeners |-> eventListeners, abortListeners |-> abortListeners,
   abortCleanupFunctions |-> abortCleanupFunctions]

SetThis(tm) ==
  /\ eventListeners' = tm.eventListeners
  /\ abortListeners' = tm.abortListeners
  /\ abortCleanupFunctions' = tm.abortCleanupFunctions

\* ----------------------------------------------------- the pure helpers
\* (a download that never looks at the signal)
checkAbortedNever(opts, isAborted) == FALSE

\* checkAborted: TRUE when it throws the AbortError
checkAborted(opts, isAborted) == opts.hasSignal /\ isAborted

\* ---- the listener registry.  `tm` stands for the fields of the manager the
\* registry methods work on: eventListeners, the abort listeners that
\* addEventListener has put on the token (abortListeners), the entry of
\* abortCleanupFunctions for the token (0 when there is none, otherwise the
\* abort listener its function takes off the token).  A closure is named by
\* a number no closure still referred to has.
NoOptions == [once |-> FALSE, signal |-> FALSE]

\* (a removal that stops after the first occurrence)
removeEventListenerFirst(reg, type, listener) ==
  IF type \in EventTypes /\ \E i \in 1..Len(reg[type]) : reg[type][i] = listener
    THEN LET i == CHOOSE k \in 1..Len(reg[type]) :
                    reg[type][k] = listener /\ \A j \in 1..(k - 1) : reg[type][j] # listener
         IN [reg EXCEPT ![type] = SubSeq(@, 1, i - 1) \o SubSeq(@, i + 1, Len(@))]
    ELSE reg

\* removeEventListener: splices out every occurrence of the listener; the
\* lists are unchanged when the type has none or when it throws
removeEventListener(reg, type, listener) ==
  IF type \in EventTypes
    THEN [reg EXCEPT ![type] = SelectSeq(@, LAMBDA c : c # listener)]
    ELSE reg

\* removeEventListener throws for a type that has a member but is no event type
removeEventListenerThrows(type) ==
  IF HasListeners(type) /\ type \notin EventTypes THEN "UnknownEventType" ELSE NoStr

\* addEventListener from line 522 on: the abort listener on the token and its
\* cleanup function, the once closure, the push
ClosuresOf(tm) ==
  UNION {{tm.eventListeners[t][i].wrapper : i \in 1..Len(tm.eventListeners[t])} :
           t \in EventTypes} \cup
  {tm.abortListeners[i].id : i \in 1..Len(tm.abortListeners)} \cup
  {tm.abortListeners[i].listener.wrapper : i \in 1..Len(tm.abortListeners)} \cup
  {tm.abortCleanupFunctions}
NewClosure(tm) == CHOOSE n \in 1..(Cardinality(ClosuresOf(tm)) + 1) : n \notin ClosuresOf(tm)

RegisterListener(tm, type, callback, options) ==
  LET n == NewClosure(tm)
      updatedCallback == IF options.once THEN OnceWrapper(callback, n) ELSE Listener(callback)
  IN [eventListeners |->
        IF type \in EventTypes
          THEN [tm.eventListeners EXCEPT ![type] = Append(@, updatedCallback)]
          ELSE tm.eventListeners,
      abortListeners |->
        IF options.signal
          THEN Append(tm.abortListeners, [id |-> n, type |-> type, listener |-> updatedCallback])
          ELSE tm.abortListeners,
      abortCleanupFunctions |-> IF options.signal THEN n ELSE tm.abortCleanupFunctions]

\* (a registration that does not look at the token)
addEventListenerAnyway(tm, type, callback, options, isAborted) ==
  IF ~HasListeners(type) THEN tm ELSE RegisterListener(tm, type, callback, options)

\* addEventListener(type, callback, options)
addEventListener(tm, type, callback, options, isAborted) ==
  IF ~HasListeners(type) THEN tm
  ELSE IF options.signal /\ isAborted THEN tm
  ELSE RegisterListener(tm, type, callback, options)

\* what addEventListener throws: the error of line 511, or the TypeError of
\* push on a member that is no list
addEventListenerThrows(type, options, isAborted) ==
  IF ~HasListeners(type) THEN "UnknownEventType"
  ELSE IF options.signal /\ isAborted THEN NoStr
  ELSE IF type \notin EventTypes THEN "TypeError"
  ELSE NoStr

\* the token fires: its abort listeners run in the order they were added,
\* each once (removeListenerAfterAbort, lines 523-528)
RECURSIVE removeListenerAfterAbort(_, _)
removeListenerAfterAbort(reg, ls) ==
  IF ls = <<>> THEN reg
  ELSE removeListenerAfterAbort(removeEventListener(reg, ls[1].type, ls[1].listener), Tail(ls))

fireAbort(tm) ==
  [tm EXCEPT !.eventListeners = removeListenerAfterAbort(tm.eventListeners, tm.abortListeners),
             !.abortListeners = <<>>]

\* the loop of download over iterateListeners(transferOptions.eventListeners)
RECURSIVE addLocalEventListeners(_, _)
addLocalEventListeners(tm, ls) ==
  IF ls = <<>> THEN tm
  ELSE addLocalEventListeners(
         addEventListener(tm, ls[1].eventType, ls[1].callback, NoOptions, FALSE), Tail(ls))

\* removeLocalEventListeners: the loop over the call-scoped listeners
RECURSIVE removeListeners(_, _)
removeListeners(reg, ls) ==
  IF ls = <<>> THEN reg
  ELSE removeListeners(removeEventListener(reg, ls[1].eventType, Listener(ls[1].callback)), Tail(ls))

\* removeLocalEventListeners: the cleanup function of the call's token is run
\* and its entry deleted
abortCleanup(tm, opts) ==
  IF opts.hasSignal
    THEN [tm EXCEPT !.abortListeners = SelectSeq(@, LAMBDA l : l.id # tm.abortCleanupFunctions),
                    !.abortCleanupFunctions = 0]
    ELSE tm

removeLocalEventListeners(tm, opts) ==
  abortCleanup([tm EXCEPT !.eventListeners = removeListeners(@, opts.eventListeners)], opts)

\* how a callback is invoked, by dispatchEvent or by its once closure
MethodOf(callback) == IF callback \in HandlerObjects THEN "handleEvent" ELSE "call"

\* for (const listener of listeners): the iterator reads the list itself at
\* position i each turn; a once closure removes itself when it has run.
\* null is no function, so null.handleEvent is read, by dispatchEvent or by
\* the once closure: the TypeError ends the loop.  What the invoked callback
\* does to the list (RegisteringCallback pushes cbA) is done before the
\* iterator takes its next step.
Invoke(reg, type, listener) ==
  IF listener.callback = RegisteringCallback
    THEN [reg EXCEPT ![type] = Append(@, Listener("cbA"))]
    ELSE reg

RECURSIVE dispatchLoop(_, _, _, _)
dispatchLoop(reg, type, i, calls) ==
  IF i > Len(reg[type]) THEN [eventListeners |-> reg, calls |-> calls, thrown |-> NoStr]
  ELSE LET listener == reg[type][i]
       IN IF listener.callback = NullCallback
            THEN [eventListeners |-> reg, calls |-> calls, thrown |-> "TypeError"]
            ELSE dispatchLoop(
                   Invoke(IF listener.wrapper # 0 THEN removeEventListener(reg, type, listener)
                          ELSE reg, type, listener),
                   type, i + 1,
                   Append(calls, [listener |-> listener, method |-> MethodOf(listener.callback)]))

\* dispatchEvent: the log keeps the event, the list when the dispatch began,
\* the invocations made and whether true was returned (iterating a member that
\* is no list throws).  `req` is 0 for the download request and i for
\* requests[i].
dispatchEvent(log, reg, type, req, transferred, total) ==
  LET done == IF type \in EventTypes THEN dispatchLoop(reg, type, 1, <<>>)
              ELSE [eventListeners |-> reg, calls |-> <<>>,
                    thrown |-> IF type \in InheritedNames THEN "TypeError" ELSE NoStr]
  IN [events |-> Append(log, [type |-> type, request |-> req, transferredBytes |-> transferred,
                              totalBytes |-> total,
                              before |-> IF type \in EventTypes THEN reg[type] ELSE <<>>,
                              calls |-> done.calls,
                              returned |-> done.thrown = NoStr]),
      eventListeners |-> done.eventListeners,
      thrown |-> done.thrown]

\* const metadata = {}
EmptyMetadata == [ETag |-> NoStr, PartsCount |-> NoNum, ContentRange |-> <<>>]

\* a GetObject response: the output with its Body
Response(out, body) == out @@ [Body |-> body]

\* assignMetadata(container, response): every key the response has, but Body,
\* is written over the container's
assignMetadata(container, response) ==
  [ETag |-> IF response.ETag # NoStr THEN response.ETag ELSE container.ETag,
   PartsCount |-> IF response.PartsCount # NoNum THEN response.PartsCount ELSE container.PartsCount,
   ContentRange |->
     IF response.ContentRange # <<>> THEN response.ContentRange ELSE container.ContentRange]

\* request.Range.replace("bytes=", "").split("-").map(Number): Number("") is 0
ParseUserRange(range) ==
  << IF range[1] = NoNum THEN 0 ELSE range[1], IF range[2] = NoNum THEN 0 ELSE range[2] >>

\* left, right and maxRange before the first RANGE request
InitialWindow(req, targetPartSizeBytes) ==
  IF req.Range # <<>>
    THEN LET user == ParseUserRange(req.Range)
         IN [left |-> user[1],
             right |-> Min(user[2], user[1] + MIN_PART_SIZE - 1),
             maxRange |-> user[2]]
    ELSE [left |-> 0, right |-> targetPartSizeBytes - 1, maxRange |-> POSITIVE_INFINITY]

\* (a window that starts on the last byte of the one before it)
NextLeftOverlap(r) == r

\* left = right + 1
NextLeft(r) == r + 1

\* (a window that is never cut at the end of the caller's range)
NextRightUncapped(l, maxR) == l + MIN_PART_SIZE - 1

\* right = Math.min(left + MIN_PART_SIZE - 1, maxRange)
NextRight(l, maxR) == Min(l + MIN_PART_SIZE - 1, maxR)

\* (a length that is not cut at the total size)
RemainingLengthOfWindow(l, r, total) ==
  IF Truthy(total) THEN r - l + 1 ELSE 0

\* remainingLength = totalSize ? Math.min(right - left + 1, Math.max(0, totalSize - left)) : 0
RemainingLength(l, r, total) ==
  IF Truthy(total) THEN Min(r - l + 1, Max(0, total - l)) ELSE 0

\* totalSize = ContentRange ? Number.parseInt(ContentRange.split("/")[1]) : undefined
ParseTotalSize(contentRange) ==
  IF contentRange # <<>> THEN contentRange[3] ELSE NoNum

\* (the entity tag sent whether or not the version is pinned)
IfMatchAlways(req, etag) == etag

\* IfMatch: !request.VersionId ? initialETag : undefined
IfMatchFor(req, etag) == IF req.VersionId = NoStr THEN etag ELSE NoStr

\* the GetObjectCommandInput built from the request
Input(req, partNumber, range, ifMatch) ==
  [PartNumber |-> partNumber, Range |-> range, VersionId |-> req.VersionId, IfMatch |-> ifMatch]

\* s3ClientInstance.send(new GetObjectCommand(input)): the network log
Send(log, input, isAborted) == Append(log, [input |-> input, aborted |-> isAborted])

PendingStream == [state |-> "pending", body |-> <<>>, range |-> <<>>]
ResolvedStream(body, range) == [state |-> "resolved", body |-> body, range |-> range]

\* the bytes of chunk k of stream i, named <<stream, offset>>
ChunkBytes(i, body, k) ==
  LET before == SumSeq(SubSeq(body, 1, k - 1))
  IN [j \in 1..body[k] |-> <<i, before + j>>]

\* --------------------------------------------------------------- Init
\* targetPartSizeBytes is read by the RANGE branch only
Configs ==
  { [multipartDownloadType |-> "PART", targetPartSizeBytes |-> DEFAULT_PART_SIZE] } \cup
  [multipartDownloadType : {"RANGE"}, targetPartSizeBytes : {MIN_PART_SIZE, DEFAULT_PART_SIZE}]
Requests == [PartNumber : {NoNum, 2}, Range : CallerRanges, VersionId : {NoStr, "v1"}]
Options == [hasSignal : BOOLEAN, eventListeners : LocalListenerSets]

\* no registry method has been called yet
NoCall ==
  [op |-> "none", type |-> NoStr, callback |-> NoStr, options |-> NoOptions, thrown |-> NoStr,
   before |-> EmptyRegistry]

InitCall ==
  /\ config \in Configs
  /\ request \in Requests
  /\ transferOptions \in Options
  /\ store \in Stores
  /\ aborted = FALSE
  /\ eventListeners \in InstanceRegistries
  /\ abortListeners = <<>> /\ abortCleanupFunctions = 0
  /\ lastCall = NoCall
  /\ tokenListeners = {}
  /\ pc = "idle"
  /\ error = NoStr
  /\ left = 0 /\ right = 0 /\ maxRange = 0 /\ remainingLength = 1
  /\ totalSize = NoNum /\ initialETag = NoStr
  /\ part = 0 /\ partsCount = NoNum
  /\ metadata = EmptyMetadata
  /\ requests = <<>> /\ sent = <<>> /\ streams = <<>>
  /\ joined = "none" /\ jIndex = 0 /\ jChunk = 0 /\ jState = "idle"
  /\ bytesTransferred = 0 /\ output = <<>>
  /\ events = <<>>

\* no content ranges are under validation
NoValidation == [thrown |-> NoStr, expected |-> NoNum, actual |-> NoNum]

\* ------------------------------------------------------- the constructor
\* the algorithms the ChecksumAlgorithm type names
ChecksumAlgorithms == {"CRC32", "CRC32C", "CRC64NVME", "SHA1", "SHA256"}

\* config.eventListeners: `given` are the event types it has a list for
\* (none when it is omitted), `lists` the lists
CtorListeners ==
  { [given |-> {}, lists |-> EmptyRegistry],
    [given |-> {"transferComplete"},
     lists |-> [EmptyRegistry EXCEPT !["transferComplete"] = <<Listener("cbB")>>]],
    [given |-> EventTypes, lists |-> [t \in EventTypes |-> <<Listener("cbA")>>]] }

\* the S3TransferManagerConfig objects; NoNum and NoStr for an omitted field
TargetPartSizes ==
  {NoNum, 0, 2 * 1024 * 1024, DEFAULT_PART_SIZE} \cup
  {MIN_PART_SIZE + d : d \in (0 - MaxSlack)..MaxSlack}
CtorConfigs ==
  [targetPartSizeBytes : TargetPartSizes,
   checksumAlgorithm : {NoStr, "MD5"} \cup ChecksumAlgorithms,
   multipartDownloadType : {NoStr, "PART", "RANGE"},
   eventListeners : CtorListeners]

\* new S3TransferManager(): config = {}
DefaultConfig ==
  [targetPartSizeBytes |-> NoNum, checksumAlgorithm |-> NoStr, multipartDownloadType |-> NoStr,
   eventListeners |-> [given |-> {}, lists |-> EmptyRegistry]]

\* a ?? b, for a number and for a string
CoalesceNum(a, b) == IF a = NoNum THEN b ELSE a
CoalesceStr(a, b) == IF a = NoStr THEN b ELSE a

\* (a check that refuses the minimum itself)
validateConfigAbove(tm) ==
  IF tm.targetPartSizeBytes <= MIN_PART_SIZE THEN "targetPartSizeBytes must be at least" ELSE NoStr

\* validateConfig: the message of the Error it throws, NoStr when it returns
validateConfig(tm) ==
  IF tm.targetPartSizeBytes < MIN_PART_SIZE THEN "targetPartSizeBytes must be at least" ELSE NoStr

\* the constructor: the fields it assigns, and what validateConfig threw
\* (no manager comes of a constructor that throws)
constructor(cfg) ==
  LET tm == [targetPartSizeBytes |-> CoalesceNum(cfg.targetPartSizeBytes, DEFAULT_PART_SIZE),
             checksumAlgorithm |-> CoalesceStr(cfg.checksumAlgorithm, "CRC32"),
             multipartDownloadType |-> CoalesceStr(cfg.multipartDownloadType, "PART"),
             eventListeners |->
               [t \in EventTypes |->
                  IF t \in cfg.eventListeners.given THEN cfg.eventListeners.lists[t] ELSE <<>>]]
  IN [thrown |-> validateConfig(tm), fields |-> tm]

\* the arrays that hold listeners: <<0, type>> is the array the config has
\* for the type, <<n, type>> the array literal the n-th constructor evaluates
ArrayIds == (0..MaxInstances) \X EventTypes
NoArrays == [id \in ArrayIds |-> <<>>]

\* this.eventListeners = { type: config.eventListeners?.type ?? [], ... }:
\* the array each member refers to (lines 474-479)
eventListenersOf(cfg, n) ==
  [t \in EventTypes |-> IF t \in cfg.eventListeners.given THEN <<0, t>> ELSE <<n, t>>]

\* no download of an earlier variant has been called
NoPlan ==
  [variant |-> "none", pc |-> "idle", contentLength |-> 0, left |-> 0, right |-> 0,
   remainingLength |-> 0, windows |-> <<>>]

\* the constructor has not run
NoManager == [thrown |-> "none", fields |-> constructor(DefaultConfig).fields]

Init ==
  /\ InitCall
  /\ previousRange = <<>> /\ currentRange = <<>> /\ validation = NoValidation
  /\ validated = <<>>
  /\ ctorConfig = DefaultConfig /\ manager = NoManager
  /\ arrays = NoArrays /\ instances = <<>>
  /\ rangePlan = NoPlan
  /\ streamTypes = <<>> /\ bodyKind = "node" /\ queue = <<>>

\* ------------------------------------------------------------ the signal
\* controller.abort() before the call or while it awaits its first response:
\* it runs between two steps of the call, never inside one
Abort ==
  /\ transferOptions.hasSignal
  /\ ~aborted
  /\ pc \in {"idle", "awaitFirst"}
  /\ aborted' = TRUE
  /\ SetThis(fireAbort(this))
  /\ UNCHANGED <<inputVars, callVars, pc, error, planVars, netVars, joinVars, events>>

\* ------------------------------------------------------------- download
Reject(err) == pc' = "rejected" /\ error' = err

\* download up to its first await: the abort check, the registration of the
\* call-scoped listeners, the PartNumber check and the first GetObject
DownloadStart ==
  /\ pc = "idle"
  /\ UNCHANGED <<inputVars, aborted, callVars, joinVars, events>>
  /\ UNCHANGED <<remainingLength, totalSize, initialETag, part, partsCount, metadata, requests,
                 streams>>
  /\ IF checkAborted(transferOptions, aborted)
       THEN /\ Reject("AbortError")
            /\ UNCHANGED <<eventListeners, tokenVars, left, right, maxRange, sent>>
       ELSE /\ SetThis(addLocalEventListeners(this, transferOptions.eventListeners))
            /\ IF request.PartNumber # NoNum
                 THEN /\ Reject("PartNumberNotSupported")
                      /\ UNCHANGED <<left, right, maxRange, sent>>
               ELSE IF config.multipartDownloadType = "PART"
                 THEN /\ pc' = "awaitFirst"
                      /\ error' = error
                      /\ sent' = Send(sent,
                                      IF request.Range = <<>>
                                        THEN Input(request, 1, <<>>, NoStr)
                                        ELSE Input(request, NoNum, request.Range, NoStr),
                                      aborted)
                      /\ UNCHANGED <<left, right, maxRange>>
               ELSE LET w == InitialWindow(request, config.targetPartSizeBytes)
                    IN /\ pc' = "awaitFirst"
                       /\ error' = error
                       /\ left' = w.left
                       /\ right' = w.right
                       /\ maxRange' = w.maxRange
                       /\ sent' = Send(sent, Input(request, NoNum, <<w.left, w.right>>, NoStr), aborted)

\* the first GetObject fails: download has no handler, the call rejects
FirstResponseFails ==
  /\ pc = "awaitFirst"
  /\ Reject("UpstreamError")
  /\ UNCHANGED <<inputVars, aborted, eventListeners, tokenVars, callVars, planVars, netVars, joinVars, events>>

\* PART, no caller range: part 1 has arrived (lines 664-674)
FirstPartResponse ==
  /\ pc = "awaitFirst"
  /\ config.multipartDownloadType = "PART"
  /\ request.Range = <<>>
  /\ \E body \in Bodies :
       LET out == GetObjectOutput(store, sent[1].input, 1)
           total == ParseTotalSize(out.ContentRange)
       IN /\ initialETag' = out.ETag
          /\ totalSize' = total
          /\ LET after == dispatchEvent(events, eventListeners, "transferInitiated", 0, 0, total)
             IN events' = after.events /\ eventListeners' = after.eventListeners
          /\ streams' = Append(streams, ResolvedStream(body, out.ContentRange))
          /\ requests' = Append(requests, sent[1].input)
          /\ metadata' = assignMetadata(metadata, Response(out, body))
          /\ partsCount' = out.PartsCount
          /\ part' = 2
          /\ pc' = IF out.PartsCount > 1 THEN "partLoop" ELSE "join"
  /\ UNCHANGED <<inputVars, aborted, tokenVars, callVars, error, left, right, maxRange,
                 remainingLength, sent, joinVars>>

\* PART with a caller range: the one GetObject has arrived (lines 700-707)
FirstRangedResponse ==
  /\ pc = "awaitFirst"
  /\ config.multipartDownloadType = "PART"
  /\ request.Range # <<>>
  /\ \E body \in Bodies :
       LET out == GetObjectOutput(store, sent[1].input, 1)
           total == ParseTotalSize(out.ContentRange)
       IN /\ totalSize' = total
          /\ LET after == dispatchEvent(events, eventListeners, "transferInitiated", 0, 0, total)
             IN events' = after.events /\ eventListeners' = after.eventListeners
          /\ streams' = Append(streams, ResolvedStream(body, out.ContentRange))
          /\ requests' = Append(requests, sent[1].input)
          /\ metadata' = assignMetadata(metadata, Response(out, body))
          /\ pc' = "join"
  /\ UNCHANGED <<inputVars, aborted, tokenVars, callVars, error, left, right, maxRange,
                 remainingLength, initialETag, part, partsCount, sent, joinVars>>

\* one turn of the loop over parts 2..PartsCount (lines 675-691)
PartLoop ==
  /\ pc = "partLoop"
  /\ IF checkAborted(transferOptions, aborted)
       THEN /\ Reject("AbortError")
            /\ UNCHANGED <<part, netVars>>
       ELSE LET input == Input(request, part, <<>>, IfMatchFor(request, initialETag))
            IN /\ sent' = Send(sent, input, aborted)
               /\ streams' = Append(streams, PendingStream)
               /\ requests' = Append(requests, input)
               /\ part' = part + 1
               /\ pc' = IF part + 1 <= partsCount THEN "partLoop" ELSE "join"
               /\ error' = error
  /\ UNCHANGED <<inputVars, aborted, eventListeners, tokenVars, callVars, left, right, maxRange, remainingLength,
                 totalSize, initialETag, partsCount, metadata, joinVars, events>>

\* RANGE: the first window has arrived (lines 731-742); the response may
\* come without a ContentRange
FirstWindowResponse ==
  /\ pc = "awaitFirst"
  /\ config.multipartDownloadType = "RANGE"
  /\ \E body \in Bodies, declared \in BOOLEAN :
       LET answer == GetObjectOutput(store, sent[1].input, 1)
           out == IF declared THEN answer ELSE [answer EXCEPT !.ContentRange = <<>>]
           total == ParseTotalSize(out.ContentRange)
           l == NextLeft(right)
           r == NextRight(l, maxRange)
           remaining == RemainingLength(l, r, total)
       IN /\ initialETag' = out.ETag
          /\ totalSize' = total
          /\ streams' = Append(streams, ResolvedStream(body, out.ContentRange))
          /\ requests' = Append(requests, sent[1].input)
          /\ metadata' = assignMetadata(metadata, Response(out, body))
          /\ left' = l
          /\ right' = r
          /\ remainingLength' = remaining
          /\ pc' = IF remaining > 0 THEN "rangeLoop" ELSE "join"
  /\ UNCHANGED <<inputVars, aborted, eventListeners, tokenVars, callVars, error, maxRange, part, partsCount,
                 sent, joinVars, events>>

\* one turn of the loop over the later windows (lines 745-778)
RangeLoop ==
  /\ pc = "rangeLoop"
  /\ IF checkAborted(transferOptions, aborted)
       THEN /\ Reject("AbortError")
            /\ UNCHANGED <<left, right, remainingLength, netVars>>
       ELSE LET input == Input(request, NoNum, <<left, right>>, IfMatchFor(request, initialETag))
                l == NextLeft(right)
                r == NextRight(l, maxRange)
                remaining == RemainingLength(l, r, totalSize)
            IN /\ sent' = Send(sent, input, aborted)
               /\ streams' = Append(streams, PendingStream)
               /\ requests' = Append(requests, input)
               /\ left' = l
               /\ right' = r
               /\ remainingLength' = remaining
               /\ pc' = IF remaining > 0 THEN "rangeLoop" ELSE "join"
               /\ error' = error
  /\ UNCHANGED <<inputVars, aborted, eventListeners, tokenVars, callVars, maxRange, totalSize, initialETag,
                 part, partsCount, metadata, joinVars, events>>

\* ---------------------------------------------- the callbacks of download
\* (a snapshot with the two counts in each other's place)
onBytesSwapped(log, tm, byteLength, index, total) ==
  LET after == dispatchEvent(log, tm.eventListeners, "bytesTransferred", index, total, byteLength)
  IN [events |-> after.events, tm |-> [tm EXCEPT !.eventListeners = after.eventListeners]]

\* the three callbacks download hands to joinStreams (lines 800-835); each
\* gives the event log and the registry it leaves
onBytes(log, tm, byteLength, index, total) ==
  LET after == dispatchEvent(log, tm.eventListeners, "bytesTransferred", index, byteLength, total)
  IN [events |-> after.events, tm |-> [tm EXCEPT !.eventListeners = after.eventListeners]]

onCompletion(log, tm, byteLength, index, total, opts) ==
  LET after == dispatchEvent(log, tm.eventListeners, "transferComplete", index, byteLength, total)
  IN [events |-> after.events,
      tm |-> removeLocalEventListeners([tm EXCEPT !.eventListeners = after.eventListeners], opts)]

\* the snapshot of transferFailed carries the error where the byte count goes
onFailure(log, tm, index, total, opts) ==
  LET after == dispatchEvent(log, tm.eventListeners, "transferFailed", index, NoNum, total)
  IN [events |-> after.events,
      tm |-> removeLocalEventListeners([tm EXCEPT !.eventListeners = after.eventListeners], opts)]

\* ------------------------------------------------------ the stream joiner
\* joinStreams returns the only stream as it is, and joins two or more
SingleStream(ss) == Len(ss) = 1

\* where the joiner invokes the callbacks it was given: after each chunk,
\* once after the last stream is exhausted, and when a stream errors
NotifyBytes(log, tm, byteLength, index, total) ==
  onBytes(log, tm, byteLength, index, total)
NotifyCompletion(log, tm, byteLength, index, total, opts) ==
  onCompletion(log, tm, byteLength, index, total, opts)
NotifyFailure(log, tm, index, total, opts) ==
  onFailure(log, tm, index, total, opts)

\* the joiner takes a stream once its handle has resolved
Available(handle) == handle.state = "resolved"

\* the stream iterateStreams starts with, and the one it turns to after stream i
FirstStream == 1
\* (an iteration that steps over a stream when there is one to step over)
NextStreamSkipping(i) == IF i + 2 <= Len(streams) THEN i + 2 ELSE i + 1
NextStream(i) == i + 1

\* Body: await joinStreams(streams, {...}); return response (lines 797-839)
JoinStreams ==
  /\ pc = "join"
  /\ joined' = IF SingleStream(streams) THEN "direct" ELSE "joined"
  /\ jState' = "reading"
  /\ jIndex' = FirstStream
  /\ jChunk' = 0
  /\ pc' = "returned"
  /\ UNCHANGED <<inputVars, aborted, eventListeners, tokenVars, callVars, error, planVars, netVars,
                 bytesTransferred, output, events>>

\* the response of a later sub-request arrives: .then((response) => response.Body)
ResolveStream ==
  /\ pc = "returned"
  /\ \E i \in 2..Len(streams), body \in Bodies :
       /\ streams[i].state = "pending"
       /\ streams' = [streams EXCEPT ![i] =
            ResolvedStream(body, GetObjectOutput(store, requests[i], i).ContentRange)]
  /\ UNCHANGED <<inputVars, aborted, eventListeners, tokenVars, callVars, pc, error, planVars, requests, sent,
                 joinVars, events>>

\* the single stream, read by the caller as the store delivered it
DirectRead ==
  /\ pc = "returned" /\ joined = "direct" /\ jState = "reading"
  /\ jChunk < Len(streams[1].body)
  /\ jChunk' = jChunk + 1
  /\ output' = output \o ChunkBytes(1, streams[1].body, jChunk + 1)
  /\ UNCHANGED <<inputVars, aborted, eventListeners, tokenVars, callVars, pc, error, planVars, netVars,
                 joined, jIndex, jState, bytesTransferred, events>>

DirectEnd ==
  /\ pc = "returned" /\ joined = "direct" /\ jState = "reading"
  /\ jChunk = Len(streams[1].body)
  /\ jState' = "done"
  /\ UNCHANGED <<inputVars, aborted, eventListeners, tokenVars, callVars, pc, error, planVars, netVars,
                 joined, jIndex, jChunk, bytesTransferred, output, events>>

\* iterateStreams: reader.read() gives a chunk of the current stream
IterateStreamsChunk ==
  /\ pc = "returned" /\ joined = "joined" /\ jState = "reading"
  /\ Available(streams[jIndex])
  /\ jChunk < Len(streams[jIndex].body)
  /\ LET body == streams[jIndex].body
         total == bytesTransferred + body[jChunk + 1]
         after == NotifyBytes(events, this, total, jIndex, totalSize)
     IN /\ output' = output \o ChunkBytes(jIndex, body, jChunk + 1)
        /\ bytesTransferred' = total
        /\ jChunk' = jChunk + 1
        /\ events' = after.events
        /\ SetThis(after.tm)
  /\ UNCHANGED <<inputVars, aborted, callVars, pc, error, planVars, netVars, joined, jIndex, jState>>

\* iterateStreams: the current stream is done; the next one, or the end
IterateStreamsNext ==
  /\ pc = "returned" /\ joined = "joined" /\ jState = "reading"
  /\ Available(streams[jIndex])
  /\ jChunk = Len(streams[jIndex].body)
  /\ IF jIndex < Len(streams)
       THEN /\ jIndex' = NextStream(jIndex)
            /\ jChunk' = 0
            /\ UNCHANGED <<jState, events, eventListeners, tokenVars>>
       ELSE LET after == NotifyCompletion(events, this, bytesTransferred, jIndex,
                                          totalSize, transferOptions)
            IN /\ jState' = "done"
               /\ events' = after.events
               /\ SetThis(after.tm)
               /\ UNCHANGED <<jIndex, jChunk>>
  /\ UNCHANGED <<inputVars, aborted, callVars, pc, error, planVars, netVars, joined,
                 bytesTransferred, output>>

\* the stream being read errors
StreamFails ==
  /\ pc = "returned" /\ jState = "reading"
  /\ Available(streams[jIndex])
  /\ jState' = "failed"
  /\ IF joined = "joined"
       THEN LET after == NotifyFailure(events, this, jIndex, totalSize, transferOptions)
            IN /\ events' = after.events
               /\ SetThis(after.tm)
       ELSE UNCHANGED <<events, eventListeners, tokenVars>>
  /\ UNCHANGED <<inputVars, aborted, callVars, pc, error, planVars, netVars, joined, jIndex, jChunk,
                 bytesTransferred, output>>

\* ---------------------------------------------------------------- Spec
Next ==
  \/ Abort
  \/ DownloadStart
  \/ FirstResponseFails
  \/ FirstPartResponse
  \/ FirstRangedResponse
  \/ PartLoop
  \/ FirstWindowResponse
  \/ RangeLoop
  \/ JoinStreams
  \/ ResolveStream
  \/ DirectRead
  \/ DirectEnd
  \/ IterateStreamsChunk
  \/ IterateStreamsNext
  \/ StreamFails

Spec == Init /\ [][Next]_vars

\* ------------------------------------ download of transfer-manager.ts
\* The earlier download (transfer-manager.ts, lines 132-340) awaits every
\* sub-request in turn, has no abort check, no events and no preconditions.
\* Its partNumber and PART branches:
TMSend(input) == sent' = Send(sent, input, aborted)
TMPush(body) ==
  LET getObject == GetObjectOutput(store, sent[Len(sent)].input, Len(sent))
  IN /\ streams' = Append(streams, ResolvedStream(body, getObject.ContentRange))
     /\ requests' = Append(requests, sent[Len(sent)].input)
     /\ metadata' = assignMetadata(metadata, Response(getObject, body))

\* the requests up to the first await (lines 139-146, 152-160, 196-202)
TMDownloadStart ==
  /\ pc = "idle"
  /\ IF request.PartNumber # NoNum
       THEN /\ TMSend(Input(request, request.PartNumber, request.Range, NoStr))
            /\ pc' = "tmSingle"
     ELSE IF request.Range = <<>>
       THEN /\ TMSend(Input(request, 1, <<>>, NoStr))
            /\ pc' = "tmPart1"
     ELSE /\ TMSend(Input(request, NoNum, request.Range, NoStr))
          /\ pc' = "tmSingle"
  /\ UNCHANGED <<inputVars, aborted, eventListeners, tokenVars, callVars, error, planVars, requests, streams,
                 joinVars, events>>

\* part 1 has arrived (lines 161-195): the loop starts with part 2 when
\* PartsCount > 1, otherwise the object is fetched once more without a part
TMFirstPartResponse ==
  /\ pc = "tmPart1"
  /\ \E body \in Bodies : TMPush(body)
  /\ LET out == GetObjectOutput(store, sent[1].input, 1)
     IN /\ partsCount' = out.PartsCount
        /\ IF out.PartsCount > 1
             THEN /\ sent' = Send(sent, Input(request, 2, <<>>, NoStr), aborted)
                  /\ part' = 2
                  /\ pc' = "tmPartN"
             ELSE /\ sent' = Send(sent, Input(request, NoNum, <<>>, NoStr), aborted)
                  /\ part' = part
                  /\ pc' = "tmSingle"
  /\ UNCHANGED <<inputVars, aborted, eventListeners, tokenVars, callVars, error, left, right, maxRange,
                 remainingLength, totalSize, initialETag, joinVars, events>>

\* a later part has arrived (lines 168-181)
TMPartResponse ==
  /\ pc = "tmPartN"
  /\ \E body \in Bodies : TMPush(body)
  /\ IF part + 1 <= partsCount
       THEN /\ sent' = Send(sent, Input(request, part + 1, <<>>, NoStr), aborted)
            /\ part' = part + 1
            /\ pc' = "tmPartN"
       ELSE /\ pc' = "tmJoin"
            /\ UNCHANGED <<sent, part>>
  /\ UNCHANGED <<inputVars, aborted, eventListeners, tokenVars, callVars, error, left, right, maxRange,
                 remainingLength, totalSize, initialETag, partsCount, joinVars, events>>

\* the response of a single GetObject has arrived (lines 148-151, 191-194, 204-207)
TMSingleResponse ==
  /\ pc = "tmSingle"
  /\ \E body \in Bodies : TMPush(body)
  /\ pc' = "tmJoin"
  /\ UNCHANGED <<inputVars, aborted, eventListeners, tokenVars, callVars, error, left, right, maxRange,
                 remainingLength, totalSize, initialETag, part, partsCount, sent, joinVars, events>>

\* a GetObject fails: the call rejects
TMResponseFails ==
  /\ pc \in {"tmSingle", "tmPart1", "tmPartN"}
  /\ Reject("UpstreamError")
  /\ UNCHANGED <<inputVars, aborted, eventListeners, tokenVars, callVars, planVars, netVars, joinVars, events>>

\* return {...metadata, Body: joinStreams(streams)} (lines 336-339)
TMReturn ==
  /\ pc = "tmJoin"
  /\ joined' = IF SingleStream(streams) THEN "direct" ELSE "joined"
  /\ pc' = "returned"
  /\ UNCHANGED <<inputVars, aborted, eventListeners, tokenVars, callVars, error, planVars, netVars,
                 jIndex, jChunk, jState, bytesTransferred, output, events>>

InitTM ==
  /\ Init
  /\ config.multipartDownloadType = "PART"
  /\ transferOptions = [hasSignal |-> FALSE, eventListeners |-> NoListeners]
  /\ eventListeners = EmptyRegistry

NextTM ==
  \/ TMDownloadStart
  \/ TMFirstPartResponse
  \/ TMPartResponse
  \/ TMSingleResponse
  \/ TMResponseFails
  \/ TMReturn

SpecTM == InitTM /\ [][NextTM]_vars

\* ------------------------------------------- the registry, called directly
\* The public registry methods called on a manager whose registry was filled
\* at construction, with one cancellation token in the caller's hands; the
\* token is also the abortSignal of the downloads the caller starts.
OnceOption == [once |-> TRUE, signal |-> FALSE]
SignalOption == [once |-> FALSE, signal |-> TRUE]
\* the calls of a caller that holds a token
AddCalls ==
  ({"transferInitiated"} \X Callbacks \X {NoOptions, SignalOption}) \cup
  (UnknownTypes \X {"cbA"} \X {NoOptions, SignalOption})
RemoveCalls == ({"transferInitiated"} \X Callbacks) \cup (UnknownTypes \X {"cbA"})
\* the calls of a caller that registers once listeners and dispatches
OnceCalls == {"transferInitiated"} \X Callbacks \X {NoOptions, OnceOption}
DispatchTypes == {"transferInitiated"} \cup UnknownTypes

Called(op, type, callback, options, thrown) ==
  lastCall' = [op |-> op, type |-> type, callback |-> callback, options |-> options,
               thrown |-> thrown, before |-> eventListeners]

\* tm.addEventListener(type, callback, options)
AddEventListener(calls, max) ==
  \E call \in calls :
   LET type == call[1]
       callback == call[2]
       options == call[3]
   IN
    /\ type \in EventTypes => Len(eventListeners[type]) < max
    /\ Len(abortListeners) < max
    /\ SetThis(addEventListener(this, type, callback, options, aborted))
    /\ Called("addEventListener", type, callback, options,
              addEventListenerThrows(type, options, aborted))
    /\ tokenListeners' =
         IF options.signal /\ ~aborted /\ type \in EventTypes
           THEN tokenListeners \cup {[type |-> type, listener |-> Listener(callback)]}
           ELSE tokenListeners
    /\ UNCHANGED <<inputVars, aborted, rangeVars, variantVars, ctorVars, bufferVars, pc, error, planVars, netVars, joinVars, events>>

\* tm.removeEventListener(type, callback)
RemoveEventListener(calls) ==
  \E call \in calls :
   LET type == call[1]
       callback == call[2]
   IN
    /\ eventListeners' = removeEventListener(eventListeners, type, Listener(callback))
    /\ Called("removeEventListener", type, callback, NoOptions, removeEventListenerThrows(type))
    /\ UNCHANGED <<inputVars, aborted, tokenVars, tokenListeners, rangeVars, variantVars, ctorVars, bufferVars, pc, error, planVars, netVars,
                   joinVars, events>>

\* tm.dispatchEvent(new Event(type))
DispatchEvent(types, max) ==
  \E type \in types :
    /\ Len(events) < max
    /\ LET after == dispatchEvent(events, eventListeners, type, 0, 0, NoNum)
       IN /\ events' = after.events
          /\ eventListeners' = after.eventListeners
    /\ Called("dispatchEvent", type, NoStr, NoOptions,
              dispatchEvent(events, eventListeners, type, 0, 0, NoNum).thrown)
    /\ UNCHANGED <<inputVars, aborted, tokenVars, tokenListeners, rangeVars, variantVars, ctorVars, bufferVars, pc, error, planVars, netVars,
                   joinVars>>

\* controller.abort(): the token fires
TokenFires ==
  /\ ~aborted
  /\ aborted' = TRUE
  /\ SetThis(fireAbort(this))
  /\ Called("abort", NoStr, NoStr, NoOptions, NoStr)
  /\ UNCHANGED <<inputVars, tokenListeners, rangeVars, variantVars, ctorVars, bufferVars, pc, error, planVars, netVars, joinVars, events>>

\* a download of two or more parts, called with the token as its abortSignal
\* and no listeners of its own, has been read to its end: the joiner calls
\* onCompletion (lines 811-823)
DownloadCompletes ==
  /\ Len(events) < MaxDispatches
  /\ LET after == NotifyCompletion(events, this, 0, 0, NoNum, transferOptions)
     IN /\ events' = after.events
        /\ SetThis(after.tm)
  /\ Called("download", NoStr, NoStr, NoOptions, NoStr)
  /\ UNCHANGED <<inputVars, aborted, tokenListeners, rangeVars, variantVars, ctorVars, bufferVars, pc, error, planVars, netVars, joinVars>>

InitEL ==
  /\ Init
  /\ eventListeners # EmptyRegistry
  /\ config = [multipartDownloadType |-> "PART", targetPartSizeBytes |-> DEFAULT_PART_SIZE]
  /\ request = [PartNumber |-> NoNum, Range |-> <<>>, VersionId |-> NoStr]
  /\ transferOptions = [hasSignal |-> TRUE, eventListeners |-> NoListeners]
  /\ store = [total |-> 2 * MIN_PART_SIZE, multipart |-> TRUE, ETag |-> "etag1", skew |-> 0]

NextEL ==
  \/ AddEventListener(AddCalls, MaxRegistered)
  \/ RemoveEventListener(RemoveCalls)
  \/ TokenFires
  \/ DownloadCompletes

SpecEL == InitEL /\ [][NextEL]_vars

NextDispatch ==
  \/ AddEventListener(OnceCalls, MaxListeners)
  \/ DispatchEvent(DispatchTypes, MaxDispatches)

SpecDispatch == InitEL /\ [][NextDispatch]_vars

\* the calls of a caller that registers, with once or without, removes and
\* dispatches, and that may hand null for the callback
CallbackCalls == {"transferInitiated"} \X {"cbA", NullCallback} \X {NoOptions, OnceOption}

NextOnce ==
  \/ AddEventListener(CallbackCalls, MaxRegistered)
  \/ RemoveEventListener({"transferInitiated"} \X {"cbA"})
  \/ DispatchEvent({"transferInitiated"}, MaxDispatches)

SpecOnce == InitEL /\ [][NextOnce]_vars

\* the calls of a caller one of whose listeners registers a listener
ReentrantCalls == {"transferInitiated"} \X {"cbA", RegisteringCallback} \X {NoOptions, OnceOption}

NextReentrant ==
  \/ AddEventListener(ReentrantCalls, MaxRegistered)
  \/ DispatchEvent({"transferInitiated"}, MaxDispatches)

SpecReentrant == InitEL /\ [][NextReentrant]_vars

\* ------------------------------------------------ validateExpectedRanges
\* parseContentRange: a descriptor "bytes start-end/total" is <<start, end,
\* total>>, and <<>> stands for a string the pattern does not match
ContentRanges == (0..MaxOffset) \X (0..MaxOffset) \X (1..(MaxOffset + 1))

\* what validateExpectedRanges throws, with the numbers its message names
Thrown(kind, expected, actual) == [thrown |-> kind, expected |-> expected, actual |-> actual]

\* (a validation of the start alone)
validateExpectedRangesStart(previousPart, currentPart) ==
  IF previousPart = <<>> \/ currentPart = <<>> THEN Thrown("format", NoNum, NoNum)
  ELSE
  LET expectedStart == previousPart[2] + 1
  IN IF currentPart[1] # expectedStart THEN Thrown("start", expectedStart, currentPart[1])
     ELSE Thrown("ok", NoNum, NoNum)

\* (an expected start that is one byte early)
validateExpectedRangesEarly(previousPart, currentPart) ==
  IF previousPart = <<>> \/ currentPart = <<>> THEN Thrown("format", NoNum, NoNum)
  ELSE
  LET expectedStart == previousPart[2]
      prevPartSize == previousPart[2] - previousPart[1] + 1
      currPartSize == currentPart[2] - currentPart[1] + 1
  IN IF currentPart[1] # expectedStart THEN Thrown("start", expectedStart, currentPart[1])
     ELSE IF currPartSize < prevPartSize /\ currentPart[2] # currentPart[3] - 1
       THEN Thrown("incomplete", currentPart[3], NoNum)
     ELSE Thrown("ok", NoNum, NoNum)

\* validateExpectedRanges(previousPart, currentPart, partNum): "ok", or the
\* check that throws
validateExpectedRanges(previousPart, currentPart) ==
  IF previousPart = <<>> \/ currentPart = <<>> THEN Thrown("format", NoNum, NoNum)
  ELSE
  LET expectedStart == previousPart[2] + 1
      prevPartSize == previousPart[2] - previousPart[1] + 1
      currPartSize == currentPart[2] - currentPart[1] + 1
  IN IF currentPart[1] # expectedStart THEN Thrown("start", expectedStart, currentPart[1])
     ELSE IF currPartSize < prevPartSize /\ currentPart[2] # currentPart[3] - 1
       THEN Thrown("incomplete", currentPart[3], NoNum)
     ELSE Thrown("ok", NoNum, NoNum)

\* the name of the Error validateExpectedRanges throws: every failure is
\* rethrown as new Error("Range validation failed: ..."), which sets no name
\* of its own (checkAborted, by contrast, names its error AbortError)
ErrorName(v) == IF v.thrown \in {"format", "start", "incomplete"} THEN "Error" ELSE NoStr

\* validateExpectedRanges is called on the two descriptors
ValidateExpectedRanges ==
  /\ validation = NoValidation
  /\ validation' = validateExpectedRanges(previousRange, currentRange)
  /\ UNCHANGED <<inputVars, aborted, eventListeners, tokenVars, lastCall, tokenListeners,
                 previousRange, currentRange, validated, variantVars, ctorVars, bufferVars, pc, error, planVars,
                 netVars, joinVars, events>>

InitVR ==
  /\ InitCall
  /\ config = [multipartDownloadType |-> "RANGE", targetPartSizeBytes |-> DEFAULT_PART_SIZE]
  /\ request = [PartNumber |-> NoNum, Range |-> <<>>, VersionId |-> NoStr]
  /\ transferOptions = [hasSignal |-> FALSE, eventListeners |-> NoListeners]
  /\ store = [total |-> 2 * MIN_PART_SIZE, multipart |-> TRUE, ETag |-> "etag1", skew |-> 0]
  /\ eventListeners = EmptyRegistry
  /\ previousRange \in ContentRanges \cup {<<>>}
  /\ currentRange \in ContentRanges \cup {<<>>}
  /\ validation = NoValidation
  /\ validated = <<>>
  /\ ctorConfig = DefaultConfig /\ manager = NoManager
  /\ arrays = NoArrays /\ instances = <<>>
  /\ rangePlan = NoPlan
  /\ streamTypes = <<>> /\ bodyKind = "node" /\ queue = <<>>

NextVR == ValidateExpectedRanges

\* the content ranges of the responses of one download, validated pair by
\* pair as they come: the loop of the test of lines 569-573, which goes on
\* while nothing is thrown
ValidateNextRange ==
  /\ validated # <<>> /\ Len(validated) < MaxUnits + 1
  /\ \E range \in ContentRanges :
       /\ validateExpectedRanges(validated[Len(validated)], range).thrown = "ok"
       /\ validated' = Append(validated, range)
  /\ UNCHANGED <<inputVars, aborted, eventListeners, tokenVars, lastCall, tokenListeners,
                 previousRange, currentRange, validation, variantVars, ctorVars, bufferVars, pc, error,
                 planVars, netVars, joinVars, events>>

\* the first range starts at byte 0
InitVL ==
  /\ InitCall
  /\ config = [multipartDownloadType |-> "RANGE", targetPartSizeBytes |-> DEFAULT_PART_SIZE]
  /\ request = [PartNumber |-> NoNum, Range |-> <<>>, VersionId |-> NoStr]
  /\ transferOptions = [hasSignal |-> FALSE, eventListeners |-> NoListeners]
  /\ store = [total |-> 2 * MIN_PART_SIZE, multipart |-> TRUE, ETag |-> "etag1", skew |-> 0]
  /\ eventListeners = EmptyRegistry
  /\ previousRange = <<>> /\ currentRange = <<>> /\ validation = NoValidation
  /\ \E first \in ContentRanges : first[1] = 0 /\ validated = <<first>>
  /\ ctorConfig = DefaultConfig /\ manager = NoManager
  /\ arrays = NoArrays /\ instances = <<>>
  /\ rangePlan = NoPlan
  /\ streamTypes = <<>> /\ bodyKind = "node" /\ queue = <<>>

NextVL == ValidateNextRange

SpecVL == InitVL /\ [][NextVL]_vars

SpecVR == InitVR /\ [][NextVR]_vars

\* ------------------------------------------------- the constructor, called
\* new S3TransferManager(config)
Construct ==
  /\ manager = NoManager
  /\ manager' = constructor(ctorConfig)
  /\ UNCHANGED <<inputVars, aborted, eventListeners, tokenVars, lastCall, tokenListeners, rangeVars, variantVars,
                 ctorConfig, arrays, instances, bufferVars, pc, error, planVars, netVars, joinVars,
                 events>>

InitCtor ==
  /\ InitCall
  /\ config = [multipartDownloadType |-> "PART", targetPartSizeBytes |-> DEFAULT_PART_SIZE]
  /\ request = [PartNumber |-> NoNum, Range |-> <<>>, VersionId |-> NoStr]
  /\ transferOptions = [hasSignal |-> FALSE, eventListeners |-> NoListeners]
  /\ store = [total |-> 2 * MIN_PART_SIZE, multipart |-> TRUE, ETag |-> "etag1", skew |-> 0]
  /\ eventListeners = EmptyRegistry
  /\ previousRange = <<>> /\ currentRange = <<>> /\ validation = NoValidation
  /\ validated = <<>>
  /\ ctorConfig \in CtorConfigs
  /\ manager = NoManager
  /\ arrays = NoArrays /\ instances = <<>>
  /\ rangePlan = NoPlan
  /\ streamTypes = <<>> /\ bodyKind = "node" /\ queue = <<>>

NextCtor == Construct

SpecCtor == InitCtor /\ [][NextCtor]_vars

\* --------------------------------- managers constructed from one config
\* the lists of manager n, read through its references
ListsOf(n) == [t \in EventTypes |-> arrays[instances[n][t]]]

\* push and splice work on the array itself: the lists that a registry
\* method leaves are the new contents of the arrays manager n refers to
WriteLists(n, reg) ==
  arrays' = [id \in ArrayIds |->
               IF \E t \in EventTypes : instances[n][t] = id
                 THEN reg[CHOOSE t \in EventTypes : instances[n][t] = id]
                 ELSE arrays[id]]

\* the calls made on the managers
SharedCalls == {"transferInitiated", "transferComplete"} \X {"cbA"}

\* new S3TransferManager(ctorConfig), once more
NewManager ==
  /\ Len(instances) < MaxInstances
  /\ constructor(ctorConfig).thrown = NoStr
  /\ instances' = Append(instances, eventListenersOf(ctorConfig, Len(instances) + 1))
  /\ UNCHANGED <<inputVars, aborted, eventListeners, tokenVars, lastCall, tokenListeners, rangeVars, variantVars,
                 ctorConfig, manager, arrays, bufferVars, pc, error, planVars, netVars, joinVars,
                 events>>

\* instances[n].addEventListener(type, callback)
AddOn ==
  /\ \E n \in 1..Len(instances), call \in SharedCalls :
       /\ Len(ListsOf(n)[call[1]]) < MaxRegistered
       /\ LET tm == [this EXCEPT !.eventListeners = ListsOf(n)]
          IN WriteLists(n, addEventListener(tm, call[1], call[2], NoOptions, FALSE).eventListeners)
  /\ UNCHANGED <<inputVars, aborted, eventListeners, tokenVars, lastCall, tokenListeners, rangeVars, variantVars,
                 ctorConfig, manager, instances, bufferVars, pc, error, planVars, netVars,
                 joinVars, events>>

\* instances[n].removeEventListener(type, callback)
RemoveOn ==
  /\ \E n \in 1..Len(instances), call \in SharedCalls :
       WriteLists(n, removeEventListener(ListsOf(n), call[1], Listener(call[2])))
  /\ UNCHANGED <<inputVars, aborted, eventListeners, tokenVars, lastCall, tokenListeners, rangeVars, variantVars,
                 ctorConfig, manager, instances, bufferVars, pc, error, planVars, netVars,
                 joinVars, events>>

\* the config object and the arrays it holds
InitShared ==
  /\ InitCall
  /\ config = [multipartDownloadType |-> "PART", targetPartSizeBytes |-> DEFAULT_PART_SIZE]
  /\ request = [PartNumber |-> NoNum, Range |-> <<>>, VersionId |-> NoStr]
  /\ transferOptions = [hasSignal |-> FALSE, eventListeners |-> NoListeners]
  /\ store = [total |-> 2 * MIN_PART_SIZE, multipart |-> TRUE, ETag |-> "etag1", skew |-> 0]
  /\ eventListeners = EmptyRegistry
  /\ previousRange = <<>> /\ currentRange = <<>> /\ validation = NoValidation
  /\ validated = <<>>
  /\ ctorConfig \in {cfg \in CtorConfigs :
                       /\ cfg.targetPartSizeBytes = NoNum /\ cfg.checksumAlgorithm = NoStr
                       /\ cfg.multipartDownloadType = NoStr}
  /\ manager = constructor(ctorConfig)
  /\ arrays = [id \in ArrayIds |->
                 IF id[1] = 0 /\ id[2] \in ctorConfig.eventListeners.given
                   THEN ctorConfig.eventListeners.lists[id[2]] ELSE <<>>]
  /\ instances = <<>>
  /\ rangePlan = NoPlan
  /\ streamTypes = <<>> /\ bodyKind = "node" /\ queue = <<>>

NextShared ==
  \/ NewManager
  \/ AddOn
  \/ RemoveOn

SpecShared == InitShared /\ [][NextShared]_vars

\* ------------------------- the RANGE downloads of the earlier variants
\* download of transfer-manager.ts and of its sibling (src/unnamed/part_001)
\* under RANGE, without a caller range.  rangePlan.windows are the ranges of
\* the requests whose bodies are pushed to `streams`.
Variants == {"transfer-manager.ts", "part_001"}

\* the sizes of the stored object
PlanSizes ==
  {u * MIN_PART_SIZE + d : u \in 0..(MaxUnits + 1), d \in (0 - MaxSlack)..MaxSlack}
    \ ((0 - MaxSlack)..0)

\* ContentLength of the first response: of the whole object where the request
\* has no Range, of the bytes 0..MIN_PART_SIZE of it where it has
\* Range: `bytes=0-${MIN_PART_SIZE}`; its body is not pushed
FirstContentLength(variant, total) ==
  IF variant = "transfer-manager.ts" THEN total ELSE Min(total, MIN_PART_SIZE + 1)

\* the first request has been answered: the locals before the loop
PlanFirstResponse ==
  /\ rangePlan.pc = "idle"
  /\ \E variant \in Variants :
       LET contentLength == FirstContentLength(variant, store.total)
       IN rangePlan' =
            [variant |-> variant,
             pc |-> IF variant = "part_001" /\ ~(contentLength > 0) THEN "done" ELSE "loop",
             contentLength |-> contentLength,
             left |-> 0,
             right |-> IF variant = "transfer-manager.ts" THEN 0 ELSE MIN_PART_SIZE,
             remainingLength |-> contentLength,
             windows |-> <<>>]
  /\ UNCHANGED <<inputVars, aborted, eventListeners, tokenVars, lastCall, tokenListeners, rangeVars,
                 ctorVars, bufferVars, pc, error, planVars, netVars, joinVars, events>>

\* one turn of while (remainingLength > MIN_PART_SIZE)
\* (transfer-manager.ts 226-254, part_001 228-250)
PlanLoop ==
  /\ rangePlan.pc = "loop"
  /\ rangePlan.remainingLength > MIN_PART_SIZE
  /\ rangePlan' =
       IF rangePlan.variant = "transfer-manager.ts"
         THEN LET l == IF rangePlan.right = 0 THEN rangePlan.right ELSE rangePlan.right + 1
                  r == (IF rangePlan.right = 0 THEN rangePlan.right ELSE rangePlan.right + 1)
                         + MIN_PART_SIZE
              IN [rangePlan EXCEPT !.left = l, !.right = r,
                                   !.windows = Append(@, <<l, r>>),
                                   !.remainingLength = rangePlan.contentLength - r]
         ELSE [rangePlan EXCEPT !.windows = Append(@, <<rangePlan.left, rangePlan.right>>),
                                !.remainingLength = rangePlan.contentLength - rangePlan.right,
                                !.left = rangePlan.right + 1,
                                !.right = rangePlan.right + MIN_PART_SIZE]
  /\ UNCHANGED <<inputVars, aborted, eventListeners, tokenVars, lastCall, tokenListeners, rangeVars,
                 ctorVars, bufferVars, pc, error, planVars, netVars, joinVars, events>>

\* the loop is left: the rest of the object
\* (transfer-manager.ts 258-274, part_001 255-267)
PlanRest ==
  /\ rangePlan.pc = "loop"
  /\ ~(rangePlan.remainingLength > MIN_PART_SIZE)
  /\ rangePlan' =
       IF rangePlan.variant = "transfer-manager.ts"
         THEN IF rangePlan.remainingLength > 0
                THEN [rangePlan EXCEPT
                        !.windows = Append(@, <<rangePlan.right + 1, rangePlan.contentLength - 1>>),
                        !.pc = "done"]
                ELSE [rangePlan EXCEPT !.pc = "done"]
         ELSE [rangePlan EXCEPT
                 !.windows = Append(@, <<rangePlan.right + 1, rangePlan.contentLength>>),
                 !.pc = "done"]
  /\ UNCHANGED <<inputVars, aborted, eventListeners, tokenVars, lastCall, tokenListeners, rangeVars,
                 ctorVars, bufferVars, pc, error, planVars, netVars, joinVars, events>>

InitPlan ==
  /\ config = [multipartDownloadType |-> "RANGE", targetPartSizeBytes |-> DEFAULT_PART_SIZE]
  /\ request = [PartNumber |-> NoNum, Range |-> <<>>, VersionId |-> NoStr]
  /\ transferOptions = [hasSignal |-> FALSE, eventListeners |-> NoListeners]
  /\ store \in [total : PlanSizes, multipart : {FALSE}, ETag : {"etag1"}, skew : {0}]
  /\ aborted = FALSE
  /\ eventListeners = EmptyRegistry
  /\ abortListeners = <<>> /\ abortCleanupFunctions = 0
  /\ lastCall = NoCall
  /\ tokenListeners = {}
  /\ pc = "idle"
  /\ error = NoStr
  /\ left = 0 /\ right = 0 /\ maxRange = 0 /\ remainingLength = 1
  /\ totalSize = NoNum /\ initialETag = NoStr
  /\ part = 0 /\ partsCount = NoNum
  /\ metadata = EmptyMetadata
  /\ requests = <<>> /\ sent = <<>> /\ streams = <<>>
  /\ joined = "none" /\ jIndex = 0 /\ jChunk = 0 /\ jState = "idle"
  /\ bytesTransferred = 0 /\ output = <<>>
  /\ events = <<>>
  /\ previousRange = <<>> /\ currentRange = <<>> /\ validation = NoValidation
  /\ validated = <<>>
  /\ ctorConfig = DefaultConfig /\ manager = NoManager
  /\ arrays = NoArrays /\ instances = <<>>
  /\ rangePlan = NoPlan
  /\ streamTypes = <<>> /\ bodyKind = "node" /\ queue = <<>>

NextPlan ==
  \/ PlanFirstResponse
  \/ PlanLoop
  \/ PlanRest

SpecPlan == InitPlan /\ [][NextPlan]_vars

\* ------------------------------------- the joined stream and its consumer
\* joinStreams of join-streams.ts on two or more streams that have arrived:
\* the stream it returns holds, in `queue`, the chunks taken from the parts
\* that its consumer has not read yet.  jState is "done" when iterateStreams
\* is.
StreamKinds == {"web", "node"}

\* what an element of the streams array can be: a web ReadableStream
\* (isReadableStream), a Node Readable (instanceof Readable), a Blob (isBlob),
\* or an object that is none of them
StreamTypes == {"web", "node", "blob", "other"}

\* joinStreams looks at streams[0]: new ReadableStream for a web stream, an
\* Error for a Blob, Readable.from for anything else (lines 12-26)
JoinedKind(types) == IF types[1] = "web" THEN "web" ELSE "node"
JoinThrows(types) == types[1] = "blob"

\* the highWaterMark of Readable.from(iterable): objectMode, one chunk
HighWaterMark == 1

\* iterateStreams, resumed after chunk k of stream i: the place of the chunk
\* it yields next, <<0, 0>> when it returns
\* (lines 32-51): a web stream and a Readable are drained, a Blob makes it
\* throw (<<0, 1>>), and for any other object no branch of the if is taken
RECURSIVE NextChunk(_, _, _)
NextChunk(ss, i, k) ==
  IF i > Len(ss) THEN <<0, 0>>
  ELSE IF streamTypes[i] = "blob" THEN <<0, 1>>
  ELSE IF streamTypes[i] \notin {"web", "node"} THEN NextChunk(ss, i + 1, 0)
  ELSE IF k < Len(ss[i].body) THEN <<i, k + 1>>
  ELSE NextChunk(ss, i + 1, 0)

\* one turn of `for await (const chunk of iterateStreams(streams))`: the
\* chunk is queued, or the joined stream is closed
TakeChunk ==
  LET at == NextChunk(streams, jIndex, jChunk)
  IN IF at[1] = 0
       THEN /\ jState' = IF at = <<0, 0>> THEN "done" ELSE "failed"
            /\ UNCHANGED <<jIndex, jChunk, queue>>
       ELSE /\ jIndex' = at[1]
            /\ jChunk' = at[2]
            /\ queue' = Append(queue, ChunkBytes(at[1], streams[at[1]].body, at[2]))
            /\ jState' = jState

\* new ReadableStream({ start(controller) {...} }) (lines 13-20): the loop of
\* start runs as soon as the stream is built, and controller.enqueue never
\* waits for the consumer
Start ==
  /\ bodyKind = "web" /\ jState = "reading"
  /\ TakeChunk
  /\ UNCHANGED <<inputVars, aborted, eventListeners, tokenVars, lastCall, tokenListeners, rangeVars, variantVars,
                 ctorVars, streamTypes, bodyKind, pc, error, planVars, netVars, joined, bytesTransferred, output,
                 events>>

\* Readable.from(iterateStreams(streams)) (line 25): the iterator is resumed
\* while the buffer is below the highWaterMark
ReadableFrom ==
  /\ bodyKind = "node" /\ jState = "reading"
  /\ Len(queue) < HighWaterMark
  /\ TakeChunk
  /\ UNCHANGED <<inputVars, aborted, eventListeners, tokenVars, lastCall, tokenListeners, rangeVars, variantVars,
                 ctorVars, streamTypes, bodyKind, pc, error, planVars, netVars, joined, bytesTransferred, output,
                 events>>

\* the consumer reads a chunk of the joined stream
ConsumerRead ==
  /\ queue # <<>>
  /\ output' = output \o Head(queue)
  /\ queue' = Tail(queue)
  /\ UNCHANGED <<inputVars, aborted, eventListeners, tokenVars, lastCall, tokenListeners, rangeVars, variantVars,
                 ctorVars, streamTypes, bodyKind, pc, error, planVars, netVars, joined, jIndex, jChunk, jState,
                 bytesTransferred, events>>

\* the streams arrays of two or more streams
RECURSIVE StreamArrays(_)
StreamArrays(n) ==
  IF n = 0 THEN {<<>>}
  ELSE {Append(ss, ResolvedStream(body, <<>>)) : ss \in StreamArrays(n - 1), body \in Bodies}

InitJoin ==
  /\ config = [multipartDownloadType |-> "PART", targetPartSizeBytes |-> DEFAULT_PART_SIZE]
  /\ request = [PartNumber |-> NoNum, Range |-> <<>>, VersionId |-> NoStr]
  /\ transferOptions = [hasSignal |-> FALSE, eventListeners |-> NoListeners]
  /\ store = [total |-> 2 * MIN_PART_SIZE, multipart |-> TRUE, ETag |-> "etag1", skew |-> 0]
  /\ aborted = FALSE
  /\ eventListeners = EmptyRegistry
  /\ abortListeners = <<>> /\ abortCleanupFunctions = 0
  /\ lastCall = NoCall
  /\ tokenListeners = {}
  /\ pc = "returned"
  /\ error = NoStr
  /\ left = 0 /\ right = 0 /\ maxRange = 0 /\ remainingLength = 1
  /\ totalSize = NoNum /\ initialETag = NoStr
  /\ part = 0 /\ partsCount = NoNum
  /\ metadata = EmptyMetadata
  /\ requests = <<>> /\ sent = <<>>
  /\ \E n \in 2..(MaxUnits + 1) : streams \in StreamArrays(n)
  /\ streamTypes \in [1..Len(streams) -> StreamTypes]
  /\ joined = "joined" /\ jIndex = 1 /\ jChunk = 0
  /\ jState = IF JoinThrows(streamTypes) THEN "failed" ELSE "reading"
  /\ bytesTransferred = 0 /\ output = <<>>
  /\ events = <<>>
  /\ previousRange = <<>> /\ currentRange = <<>> /\ validation = NoValidation
  /\ validated = <<>>
  /\ ctorConfig = DefaultConfig /\ manager = NoManager
  /\ arrays = NoArrays /\ instances = <<>>
  /\ rangePlan = NoPlan
  /\ bodyKind = JoinedKind(streamTypes)
  /\ queue = <<>>

NextJoin ==
  \/ Start
  \/ ReadableFrom
  \/ ConsumerRead

SpecJoin == InitJoin /\ [][NextJoin]_vars

\* ------------------------------------------------------------ the claims
\* all the bytes of streams 1..n, in plan order
BodyBytes(i, body) == [j \in 1..SumSeq(body) |-> <<i, j>>]
RECURSIVE BytesUpTo(_, _)
BytesUpTo(ss, n) == IF n = 0 THEN <<>> ELSE BytesUpTo(ss, n - 1) \o BodyBytes(n, ss[n].body)

EventsOf(type) == SelectSeq(events, LAMBDA e : e.type = type)

\* C1: the joined body yields the bytes of the parts in plan order, whatever
\* the order in which the handles resolve: at every moment the output is a
\* prefix of part 1's bytes, then part 2's, ..., and once the body is read to
\* the end it is the whole concatenation.
C1_JoinedInPlanOrder ==
  joined = "joined" =>
    /\ Len(output) <= Len(BytesUpTo(streams, jIndex))
    /\ output = SubSeq(BytesUpTo(streams, jIndex), 1, Len(output))
    /\ jState = "done" => output = BytesUpTo(streams, Len(streams))

\* C1 witness: part 1 has been yielded, the joiner waits for part 2 while
\* part 3's body has already arrived
C1_Witness ==
  /\ joined = "joined" /\ jState = "reading" /\ Len(streams) >= 3
  /\ jIndex = 2 /\ output # <<>>
  /\ streams[2].state = "pending"
  /\ streams[3].state = "resolved" /\ streams[3].body # <<>>

\* C2: a joined body is delivered to its end only from sub-responses whose
\* reported content ranges are consecutive: each starts at the end of the one
\* before it plus one, and none but the last is shorter than the one before.
RangeSize(range) == range[2] - range[1] + 1
C2_RangesValidated ==
  (joined = "joined" /\ jState = "done") =>
    \A i \in 2..Len(streams) :
      (streams[i - 1].range # <<>> /\ streams[i].range # <<>>) =>
        /\ streams[i].range[1] = streams[i - 1].range[2] + 1
        /\ i < Len(streams) => RangeSize(streams[i].range) >= RangeSize(streams[i - 1].range)

\* C3: under RANGE, with no caller range, every window requested after the
\* first response ends below the declared total, and the last one ends at
\* total - 1.
C3_LastWindowClamped ==
  (config.multipartDownloadType = "RANGE" /\ request.Range = <<>>
     /\ pc \in {"join", "returned"} /\ Len(sent) >= 2) =>
    /\ \A i \in 2..Len(sent) : sent[i].input.Range[2] < totalSize
    /\ sent[Len(sent)].input.Range[2] = totalSize - 1

\* C4: under RANGE the first window starts at 0, or at the caller's start,
\* and every later window starts at the end of the one before it plus one.
C4_WindowsContiguous ==
  config.multipartDownloadType = "RANGE" =>
    /\ Len(sent) >= 1 =>
         sent[1].input.Range[1] =
           (IF request.Range = <<>> \/ request.Range[1] = NoNum THEN 0 ELSE request.Range[1])
    /\ \A i \in 2..Len(sent) : sent[i].input.Range[1] = sent[i - 1].input.Range[2] + 1

\* C4 witness: three windows of a caller range have been requested
C4_Witness ==
  /\ config.multipartDownloadType = "RANGE" /\ request.Range # <<>>
  /\ Len(sent) >= 3 /\ pc = "returned"

\* the part numbers of the requests sent so far
PartNumbersSent == [i \in 1..Len(sent) |-> sent[i].input.PartNumber]

\* C5: under PART, with no caller range and no part number, the requests of
\* a call that returned are part 1 and then parts 2..N in ascending order, one
\* each, and nothing else; when PartsCount <= 1 the body is part 1's body.
C5_PartRequests ==
  (config.multipartDownloadType = "PART" /\ request.Range = <<>>
     /\ request.PartNumber = NoNum /\ pc = "returned") =>
    LET n == Max(PartsCountOf(store), 1)
    IN /\ PartNumbersSent = [i \in 1..n |-> i]
       /\ n = 1 => (Len(streams) = 1 /\ joined = "direct")

\* C6: every sub-request after the first carries the entity tag of the first
\* response as If-Match when the request names no version, and no If-Match
\* when it pins a version.
C6_IfMatchAfterFirst ==
  \A i \in 2..Len(sent) :
    sent[i].input.IfMatch = (IF request.VersionId = NoStr THEN store.ETag ELSE NoStr)

\* C6 witness: the later windows of an unversioned request carry the tag
C6_Witness ==
  /\ config.multipartDownloadType = "RANGE" /\ Len(sent) >= 3
  /\ request.VersionId = NoStr /\ store.ETag = "etag1"
  /\ sent[3].input.IfMatch = "etag1"

\* C7: no sub-request is sent while the signal is set; a check that finds the
\* signal set rejects the call with AbortError and sends nothing; a rejected
\* call sends nothing more.
C7_NoRequestWhileAborted ==
  /\ [](\A i \in 1..Len(sent) : ~sent[i].aborted)
  /\ [][(aborted /\ pc \in {"idle", "partLoop", "rangeLoop"})
          => (pc' = "rejected" /\ error' = "AbortError" /\ sent' = sent)]_vars
  /\ [][pc = "rejected" => sent' = sent]_vars

\* C7 witness: the signal fired while the first response was awaited, the
\* check before the second sub-request rejected the call
C7_Witness ==
  /\ pc = "rejected" /\ error = "AbortError" /\ aborted
  /\ Len(sent) = 1 /\ Len(streams) = 1

\* C8: once the first response has arrived, exactly one transferInitiated
\* has been dispatched, and none before the first sub-request was sent.
C8_InitiatedOnce ==
  /\ pc \in {"partLoop", "rangeLoop", "join", "returned"} => Len(EventsOf("transferInitiated")) = 1
  /\ sent = <<>> => Len(EventsOf("transferInitiated")) = 0

\* C9: when the body of a call has been read to its end, exactly one
\* transferComplete has been dispatched, it is the last event of the call,
\* and no transferFailed has been dispatched.
C9_CompleteOnce ==
  jState = "done" =>
    /\ Len(EventsOf("transferComplete")) = 1
    /\ events[Len(events)].type = "transferComplete"
    /\ Len(EventsOf("transferFailed")) = 0

\* C10: when the body of a call has been read to its end, none of the
\* call-scoped listeners is left in the registry.
Registered(type, callback) ==
  \E i \in 1..Len(eventListeners[type]) : eventListeners[type][i] = Listener(callback)
C10_LocalListenersRemoved ==
  jState = "done" =>
    \A i \in 1..Len(transferOptions.eventListeners) :
      ~Registered(transferOptions.eventListeners[i].eventType,
                  transferOptions.eventListeners[i].callback)

\* C11: a call that rejects after it registered its call-scoped listeners
\* (every rejection but the AbortError of the check that opens download)
\* leaves none of them in the registry.
C11_RejectRemovesLocalListeners ==
  (pc = "rejected" /\ ~(error = "AbortError" /\ sent = <<>>)) =>
    \A i \in 1..Len(transferOptions.eventListeners) :
      ~Registered(transferOptions.eventListeners[i].eventType,
                  transferOptions.eventListeners[i].callback)

\* C12: a call that rejects with the error of a failed sub-request has
\* dispatched one transferFailed, as its last event, before rejecting.
C12_UpstreamErrorDispatchesFailed ==
  (pc = "rejected" /\ error = "UpstreamError") =>
    /\ Len(EventsOf("transferFailed")) = 1
    /\ events[Len(events)].type = "transferFailed"

\* the listeners a dispatch invoked, in the order of the invocations
Invoked(e) == [k \in 1..Len(e.calls) |-> e.calls[k].listener]
Occurrences(x, list) == Cardinality({k \in 1..Len(list) : list[k] = x})
HasOnce(list) == \E k \in 1..Len(list) : list[k].wrapper # 0

\* C13: every dispatch returns true and has invoked the listeners that were
\* registered for its type when it began, in registration order, once per
\* occurrence, a function by a call and a handler object through handleEvent;
\* for a type with no list it has invoked nothing.
C13_DispatchInvokesInOrder ==
  \A i \in 1..Len(events) :
    /\ events[i].returned
    /\ Invoked(events[i]) = events[i].before
    /\ \A k \in 1..Len(events[i].calls) :
         events[i].calls[k].method =
           (IF events[i].calls[k].listener.callback = "cbB" THEN "handleEvent" ELSE "call")
    /\ events[i].type \notin EventTypes => events[i].calls = <<>>

\* C14: a dispatch that began with a once listener in the list has invoked
\* every listener of that list as often as the list held it, none skipped
\* and none twice.
C14_OnceRemovalSkipsNone ==
  \A i \in 1..Len(events) :
    HasOnce(events[i].before) =>
      \A k \in 1..Len(events[i].before) :
        Occurrences(events[i].before[k], Invoked(events[i])) =
          Occurrences(events[i].before[k], events[i].before)

\* C15: a once listener that was registered when the first of two dispatches
\* of its type began has been invoked exactly once by the two, and a once
\* listener is not in the list when the dispatch that invoked it is over.
C15_OnceInvokedOnce ==
  /\ \A i \in 1..Len(events) : \A j \in (i + 1)..Len(events) :
       (events[i].type \in EventTypes /\ events[j].type = events[i].type) =>
         \A k \in 1..Len(events[i].before) :
           LET w == events[i].before[k]
               first == Occurrences(w, Invoked(events[i]))
           IN w.wrapper # 0 =>
                first + (IF first > 0 THEN 0 ELSE Occurrences(w, Invoked(events[j]))) = 1
  /\ (lastCall.op = "dispatchEvent" /\ lastCall.type \in EventTypes) =>
       \A k \in 1..Len(events[Len(events)].calls) :
         LET w == events[Len(events)].calls[k].listener
         IN w.wrapper # 0 => Occurrences(w, eventListeners[lastCall.type]) = 0

\* C16: when the token fires, every listener that was registered with it
\* while it was live is out of the registry.
C16_RemovedWhenTokenFires ==
  lastCall.op = "abort" =>
    \A x \in tokenListeners : Occurrences(x.listener, eventListeners[x.type]) = 0

\* C17: addEventListener with the token, after the token has fired, leaves
\* every list as it was before the call.
C17_AbortedTokenAddsNothing ==
  (lastCall.op = "addEventListener" /\ lastCall.options.signal /\ aborted) =>
    eventListeners = lastCall.before

\* C17 witness: such a call was made for an event type, on a list that held
\* listeners
C17_Witness ==
  /\ lastCall.op = "addEventListener" /\ lastCall.options.signal /\ aborted
  /\ lastCall.type = "transferInitiated" /\ lastCall.thrown = NoStr
  /\ Len(eventListeners["transferInitiated"]) = 2

\* C18: removeEventListener(type, callback) on an event type does not throw,
\* leaves no occurrence of the callback in the list of the type, keeps the
\* other listeners of that list in their order and leaves the lists of the
\* other types as they were.
C18_RemoveEveryOccurrence ==
  (lastCall.op = "removeEventListener" /\ lastCall.type \in EventTypes) =>
    LET old == lastCall.before[lastCall.type]
        kept == {k \in 1..Len(old) : old[k] # Listener(lastCall.callback)}
        new == eventListeners[lastCall.type]
    IN /\ lastCall.thrown = NoStr
       /\ Occurrences(Listener(lastCall.callback), new) = 0
       /\ Len(new) = Cardinality(kept)
       /\ \A k \in kept : new[Cardinality({j \in kept : j <= k})] = old[k]
       /\ \A t \in EventTypes \ {lastCall.type} : eventListeners[t] = lastCall.before[t]

\* C18 witness: the callback was in the list twice, around another listener,
\* and the removal left that listener alone
C18_Witness ==
  /\ lastCall.op = "removeEventListener" /\ lastCall.type = "transferInitiated"
  /\ lastCall.callback = "cbA"
  /\ lastCall.before["transferInitiated"] = <<Listener("cbA"), Listener("cbB"), Listener("cbA")>>
  /\ eventListeners["transferInitiated"] = <<Listener("cbB")>>

\* C19: addEventListener with a type that is no event type throws the
\* unknown-event-type error and leaves every list as it was before the call.
C19_UnknownTypeThrows ==
  (lastCall.op = "addEventListener" /\ lastCall.type \notin EventTypes) =>
    /\ lastCall.thrown = "UnknownEventType"
    /\ eventListeners = lastCall.before

\* C20: on two well-formed descriptors validateExpectedRanges passes exactly
\* when the current start is the previous end plus one and the current part
\* is not shorter than the previous one or ends at total - 1; a wrong start
\* is reported with the expected and the actual start, and a shorter part
\* that does not end at total - 1 as an incomplete final part.
C20_ValidateExpectedRanges ==
  (validation # NoValidation /\ previousRange # <<>> /\ currentRange # <<>>) =>
    LET startOk == currentRange[1] = previousRange[2] + 1
        sizeOk == RangeSize(currentRange) >= RangeSize(previousRange)
        endsAtTotal == currentRange[2] = currentRange[3] - 1
    IN /\ validation.thrown = "ok" <=> (startOk /\ (sizeOk \/ endsAtTotal))
       /\ ~startOk =>
            validation = Thrown("start", previousRange[2] + 1, currentRange[1])
       /\ (startOk /\ ~sizeOk /\ ~endsAtTotal) => validation.thrown = "incomplete"

\* C20 witness: a shorter part that ends at total - 1 has passed
C20_Witness ==
  /\ previousRange = <<0, 1, 3>> /\ currentRange = <<2, 2, 3>>
  /\ validation.thrown = "ok"

\* one call of validateExpectedRanges for each failure: an unparsable
\* descriptor, a wrong start, a short part that is not the last
RangeFailures ==
  { validateExpectedRanges(<<>>, <<0, 0, 1>>),
    validateExpectedRanges(<<0, 0, 2>>, <<0, 0, 2>>),
    validateExpectedRanges(<<0, 1, 4>>, <<2, 2, 4>>) }

\* C21: the error of a range-validation failure tells its kind: it bears
\* another name than the error of each of the two other failures.
C21_FailureKindsDistinct ==
  validation.thrown \in {"format", "start", "incomplete"} =>
    \A f \in RangeFailures :
      f.thrown # validation.thrown => ErrorName(f) # ErrorName(validation)

\* C22: the constructor throws the configuration error for every
\* targetPartSizeBytes below MIN_PART_SIZE, and yields a manager for every
\* value from MIN_PART_SIZE up and for the omitted field, which it reads as
\* DEFAULT_PART_SIZE.
C22_PartSizeValidated ==
  manager.thrown # "none" =>
    LET size == ctorConfig.targetPartSizeBytes
    IN /\ (size # NoNum /\ size < 5242880) =>
            manager.thrown = "targetPartSizeBytes must be at least"
       /\ (size # NoNum /\ size >= 5242880) =>
            (manager.thrown = NoStr /\ manager.fields.targetPartSizeBytes = size)
       /\ size = NoNum =>
            (manager.thrown = NoStr /\ manager.fields.targetPartSizeBytes = 8388608)

\* C22 witness: the minimum itself was accepted
C22_Witness ==
  /\ ctorConfig.targetPartSizeBytes = 5242880
  /\ manager.thrown = NoStr /\ manager.fields.targetPartSizeBytes = 5242880

\* C23: the constructor throws for a checksumAlgorithm outside the five
\* algorithms, and every manager it yields has one of the five.
C23_ChecksumAlgorithmValidated ==
  manager.thrown # "none" =>
    /\ ctorConfig.checksumAlgorithm \notin ChecksumAlgorithms \cup {NoStr} => manager.thrown # NoStr
    /\ manager.thrown = NoStr => manager.fields.checksumAlgorithm \in ChecksumAlgorithms

\* C24: a call whose request names a part number, once it is over without an
\* abort or a failed sub-request, has returned the body of one GetObject,
\* the one for that part.
C24_PartNumberSingleFetch ==
  (request.PartNumber # NoNum /\ pc \in {"rejected", "returned"}
     /\ error \notin {"AbortError", "UpstreamError"}) =>
    /\ pc = "returned"
    /\ Len(sent) = 1 /\ sent[1].input.PartNumber = request.PartNumber
    /\ Len(streams) = 1 /\ joined = "direct"

\* the metadata of the sub-responses 1..n merged field by field, a later
\* response's field over an earlier one's
LastWriteWins(a, b) ==
  [ETag |-> IF b.ETag # NoStr THEN b.ETag ELSE a.ETag,
   PartsCount |-> IF b.PartsCount # NoNum THEN b.PartsCount ELSE a.PartsCount,
   ContentRange |-> IF b.ContentRange # <<>> THEN b.ContentRange ELSE a.ContentRange]
RECURSIVE MergedUpTo(_)
MergedUpTo(n) ==
  IF n = 0 THEN [ETag |-> NoStr, PartsCount |-> NoNum, ContentRange |-> <<>>]
  ELSE LastWriteWins(MergedUpTo(n - 1), GetObjectOutput(store, requests[n], n))

\* C25: the metadata of a response that was returned is the merge of the
\* metadata of all the sub-responses of the call in plan order, last write
\* wins, and has no Body field.
C25_MetadataMerged ==
  pc = "returned" =>
    /\ metadata = MergedUpTo(Len(requests))
    /\ "Body" \notin DOMAIN metadata

\* C26: when a stream of the body has errored while the body was read, one
\* transferFailed has been dispatched, for that stream, and no
\* transferComplete; from then on the body yields nothing and no event is
\* dispatched.
C26_StreamFailureReported ==
  /\ [](jState = "failed" =>
          /\ Len(EventsOf("transferFailed")) = 1
          /\ EventsOf("transferFailed")[1].request = jIndex
          /\ Len(EventsOf("transferComplete")) = 0)
  /\ [][jState = "failed" => (output' = output /\ events' = events)]_vars

\* C27: the joined stream never holds more than one chunk that its consumer
\* has not read, whatever the number of chunks of the parts and whether the
\* bodies are web streams or Node streams.
C27_Backpressure == Len(queue) <= 1

\* C28: a dispatch that follows removeEventListener(type, callback) invokes
\* the callback neither directly nor through a once closure.
C28_RemoveReachesOnce ==
  [][(lastCall.op = "removeEventListener" /\ lastCall.type \in EventTypes
        /\ lastCall'.op = "dispatchEvent" /\ lastCall'.type = lastCall.type) =>
       \A k \in 1..Len(events'[Len(events')].calls) :
         events'[Len(events')].calls[k].listener.callback # lastCall.callback]_vars

\* C29: when the token fires right after the cleanup of a download that was
\* given the token, every list stays as it is.
C29_CleanupRetractsAll ==
  [][(lastCall.op = "download" /\ ~aborted /\ aborted') => eventListeners' = eventListeners]_vars

\* C30: addEventListener with null for the callback does not throw and
\* leaves every list as it was, and a dispatch on a list does not throw for
\* a null in it.
C30_NullCallbackNoOp ==
  /\ (lastCall.op = "addEventListener" /\ lastCall.callback = "null"
        /\ lastCall.type \in EventTypes) =>
       (lastCall.thrown = NoStr /\ eventListeners = lastCall.before)
  /\ \A i \in 1..Len(events) : events[i].type \in EventTypes => events[i].returned

\* the claim of C31 as it was made: a list that starts at byte 0 and passed
\* pair by pair is contiguous and its last range ends at total - 1
C31_ListCoversTotal ==
  Len(validated) >= 2 =>
    /\ \A i \in 2..Len(validated) : validated[i][1] = validated[i - 1][2] + 1
    /\ validated[Len(validated)][2] = validated[Len(validated)][3] - 1

\* C31: a list of content ranges that starts at byte 0 and passed
\* validateExpectedRanges pair by pair is contiguous, and every range of it
\* that is shorter than the one before it ends at its total - 1.
C31_ListContiguous ==
  Len(validated) >= 2 =>
    /\ validated[1][1] = 0
    /\ \A i \in 2..Len(validated) :
         /\ validated[i][1] = validated[i - 1][2] + 1
         /\ (validated[i][2] - validated[i][1] < validated[i - 1][2] - validated[i - 1][1]) =>
              validated[i][2] = validated[i][3] - 1

\* C31 witness: three ranges have passed, the last one shorter and ending
\* at total - 1
C31_Witness ==
  validated = << <<0, 0, 4>>, <<1, 2, 4>>, <<3, 3, 4>> >>

\* C32: under RANGE every requested window but the last spans exactly
\* config.targetPartSizeBytes bytes, with or without a caller range.
C32_WindowsSpanTargetPartSize ==
  config.multipartDownloadType = "RANGE" =>
    \A i \in 1..(Len(sent) - 1) :
      RangeSize(sent[i].input.Range) = config.targetPartSizeBytes

RECURSIVE ChunksOfStreams(_)
ChunksOfStreams(n) == IF n = 0 THEN <<>> ELSE ChunksOfStreams(n - 1) \o streams[n].body
YieldedChunks ==
  ChunksOfStreams(jIndex - 1) \o SubSeq(streams[jIndex].body, 1, jChunk)

\* C34: within one download the k-th bytesTransferred event reports the sum
\* of the lengths of the first k chunks yielded (so the value never decreases
\* and grows by each chunk's length), and transferComplete reports the sum of
\* the lengths of all parts.
C34_RunningTotal ==
  joined = "joined" =>
    LET bytes == EventsOf("bytesTransferred")
        complete == EventsOf("transferComplete")
    IN /\ Len(bytes) = Len(YieldedChunks)
       /\ \A k \in 1..Len(bytes) :
            bytes[k].transferredBytes = SumSeq(SubSeq(YieldedChunks, 1, k))
       /\ \A k \in 1..Len(complete) :
            complete[k].transferredBytes = SumSeq(ChunksOfStreams(Len(streams)))

\* C34 witness: two parts of two chunks each have been joined to the end;
\* four events reported 1, 3, 4 and 6 bytes and the completion 6
C34_Witness ==
  /\ joined = "joined" /\ jState = "done" /\ Len(streams) = 2
  /\ Len(EventsOf("bytesTransferred")) = 2 * MaxChunks
  /\ EventsOf("transferComplete") # <<>>
  /\ EventsOf("transferComplete")[1].transferredBytes = 2 * SumSeq([i \in 1..MaxChunks |-> i])

\* C35: one call of addEventListener or removeEventListener changes the
\* listeners of the manager it is called on only: no step changes the lists
\* of two managers, also when both were constructed from one config whose
\* eventListeners collection is given.
C35_ListsPerInstance ==
  [][\A m \in 1..Len(instances), n \in 1..Len(instances) :
       (m # n /\ Len(instances') = Len(instances) /\ ListsOf(m)' # ListsOf(m)) =>
         ListsOf(n)' = ListsOf(n)]_vars

\* C36: in the RANGE downloads of transfer-manager.ts and of its sibling,
\* without a caller range, the windows whose bodies are joined partition the
\* object: the first starts at 0, each later one starts where the one before
\* ended plus one, the last ends at the object's size - 1 and none has
\* start > end (so every byte is requested exactly once).
C36_WindowsPartitionObject ==
  rangePlan.pc = "done" =>
    LET w == rangePlan.windows
    IN /\ w # <<>>
       /\ w[1][1] = 0
       /\ w[Len(w)][2] = store.total - 1
       /\ \A i \in 1..Len(w) : w[i][1] <= w[i][2]
       /\ \A i \in 2..Len(w) : w[i][1] = w[i - 1][2] + 1

\* the registrations the download call made for its own listeners
LocalRegistrations(type, callback) ==
  Cardinality({i \in 1..Len(transferOptions.eventListeners) :
                 transferOptions.eventListeners[i] = [eventType |-> type, callback |-> callback]})

\* C37: deregistering the call-scoped listeners of a download removes only
\* that call's own registrations: no step of the download takes more
\* occurrences of a callback off a list than the call registered there, so a
\* registration made through addEventListener stays.
C37_OnlyOwnRegistrationsRemoved ==
  [][\A type \in EventTypes, callback \in Callbacks :
       Occurrences(Listener(callback), eventListeners[type])
         - Occurrences(Listener(callback), eventListeners'[type])
       <= LocalRegistrations(type, callback)]_vars

\* C38: a listener registered for a type while a dispatch of that type is in
\* progress is not invoked during that dispatch: the invocations of one
\* dispatch are at most as many as the listeners registered when it began.
C38_DispatchBounded ==
  \A k \in 1..Len(events) : Len(events[k].calls) <= Len(events[k].before)

\* C39: the joiner never silently drops a part of two or more bodies: what
\* the joined stream has delivered is at every moment the first bytes of the
\* bodies in order, and when it has ended without an error it has delivered
\* all the bytes of every body, whatever the bodies are.
C39_NoBodySkipped ==
  joined = "joined" =>
    LET all == BytesUpTo(streams, Len(streams))
    IN /\ Len(output) <= Len(all) /\ output = SubSeq(all, 1, Len(output))
       /\ (jState = "done" /\ queue = <<>>) => output = all

\* C40: RANGE planning terminates: the sub-requests of a call are at most one
\* more than the object has windows of MIN_PART_SIZE, no window after the
\* first starts at or beyond the declared total size, and the call issues one
\* sub-request in all when the first response declares no total size or the
\* first window already covers the object.
C40_RangePlanningTerminates ==
  config.multipartDownloadType = "RANGE" =>
    /\ Len(sent) <= 1 + (store.total + MIN_PART_SIZE - 1) \div MIN_PART_SIZE
    /\ \A i \in 2..Len(sent) : sent[i].input.Range[1] < totalSize
    /\ (streams # <<>> /\ (totalSize = NoNum \/ sent[1].input.Range[2] >= totalSize - 1)) =>
         Len(sent) = 1

\* C40 witness: the loop has issued two further windows of an object and
\* has stopped
C40_Witness ==
  /\ config.multipartDownloadType = "RANGE" /\ request.Range = <<>>
  /\ pc = "join" /\ Len(sent) = 3 /\ remainingLength = 0
  /\ left >= totalSize

====
